---- MODULE Spec2Model ----
(***************************************************************************)
(* Model of the hops feature store client (hops/featurestore.py,           *)
(* hops/featurestore_impl/core.py, hops/featurestore_impl/util/fs_utils.py)*)
(*                                                                         *)
(* The client is synchronous: a public operation runs to completion and    *)
(* hands its result (a value or an exception) to the calling script.  The  *)
(* state is the process-wide metadata cache of core.py, the metadata held  *)
(* by the remote service, and the record of the public call that last      *)
(* completed.  A script that calls from several threads is modelled step   *)
(* by step at the end of the module; everywhere else there is one thread.  *)
(***************************************************************************)
EXTENDS Integers, Sequences, FiniteSets, TLC

VARIABLES
    remote,          \* the metadata the remote service holds, per feature store
    metadata_cache,  \* core.metadata_cache (core.py:41)
    last,            \* the public call that completed last, "idle" once consumed
    threads          \* the threads that run public operations side by side

vars == <<remote, metadata_cache, last, threads>>

(***************************************************************************)
(* Bounds                                                                  *)
(***************************************************************************)
MaxVersion == 2       \* feature group versions range over 1..MaxVersion
MaxFetchFaults == 2   \* the first MaxFetchFaults remote fetches of a call may fail
MaxColLen == 5        \* characters of a result column name
MaxFeatures == 3      \* features of a multi-feature query

None == "None"

(***************************************************************************)
(* The remote service: feature stores and the entities they may hold       *)
(***************************************************************************)
project_featurestore == "fs_a"
Stores == {"fs_a", "fs_b"}
Versions == 1..MaxVersion

cached_featuregroup_type == "CACHED_FEATURE_GROUP"
on_demand_featuregroup_type == "ON_DEMAND_FEATURE_GROUP"

\* The feature groups that can exist on the service: (name, version) pairs.
\* "trx" exists in every version, "graph" in version 1 only.
FgKeys == ({"trx"} \X Versions) \cup {<<"graph", 1>>}
TdKeys == {"td"} \X Versions
ConnectorNames == {"jdbc_conn"}

\* In fs_a "trx" is a cached group and "graph" an on-demand one; in fs_b it
\* is the other way round.
FgTypeOf(store, name) ==
    IF (store = "fs_a") = (name = "graph")
    THEN on_demand_featuregroup_type ELSE cached_featuregroup_type

FeaturesOf(name) ==
    IF name = "trx"
    THEN << [name |-> "cust_id", primary |-> TRUE],
            [name |-> "max_trx", primary |-> FALSE] >>
    ELSE << [name |-> "cust_id", primary |-> TRUE],
            [name |-> "pagerank", primary |-> FALSE] >>

StoreId(store) == IF store = "fs_a" THEN 67 ELSE 68

FgId(store, name, version) ==
    StoreId(store) * 100 + (IF name = "trx" THEN 10 ELSE 20) + version

\* JSON of one feature group as the service returns it
FeaturegroupJson(store, k) ==
    [name |-> k[1], version |-> k[2], id |-> FgId(store, k[1], k[2]),
     featuregroup_type |-> FgTypeOf(store, k[1]),
     features |-> FeaturesOf(k[1])]

TrainingDatasetJson(store, k) ==
    [name |-> k[1], version |-> k[2], id |-> StoreId(store) * 100 + 50 + k[2]]

StorageConnectorJson(store, n) ==
    [name |-> n, type |-> "JDBC", id |-> StoreId(store) * 100 + 90]

\* payload of GET .../featurestores/<featurestore>/metadata
MetadataResponse(store) ==
    [featurestore |-> [name |-> store, id |-> StoreId(store)],
     featuregroups |-> {FeaturegroupJson(store, k) : k \in remote[store].featuregroups},
     training_datasets |-> {TrainingDatasetJson(store, k) : k \in remote[store].training_datasets},
     storage_connectors |-> {StorageConnectorJson(store, n) : n \in remote[store].storage_connectors}]

(***************************************************************************)
(* Metadata model                                                          *)
(***************************************************************************)
\* fs_utils._get_table_name: name + "_" + str(version).  Names are made of
\* lower case letters, digits and underscores and the version is a number,
\* so the string determines the pair and the pair stands for the string.
_get_table_name(featuregroup, version) == <<featuregroup, version>>

\* FeaturestoreMetadata(response_object): the snapshot; feature groups and
\* training datasets are held in dicts keyed by table name, storage
\* connectors in a dict keyed by name.
FeaturestoreMetadata(response_object) ==
    [featurestore |-> response_object.featurestore,
     featuregroups |->
        [k \in {_get_table_name(g.name, g.version) : g \in response_object.featuregroups} |->
            CHOOSE g \in response_object.featuregroups : _get_table_name(g.name, g.version) = k],
     training_datasets |->
        [k \in {_get_table_name(t.name, t.version) : t \in response_object.training_datasets} |->
            CHOOSE t \in response_object.training_datasets : _get_table_name(t.name, t.version) = k],
     storage_connectors |->
        [n \in {c.name : c \in response_object.storage_connectors} |->
            CHOOSE c \in response_object.storage_connectors : c.name = n]]

\* dict.values()
Values(d) == {d[k] : k \in DOMAIN d}

(***************************************************************************)
(* Execution of one public call                                            *)
(*                                                                         *)
(* A call threads a context through the functions it runs: the cache, and  *)
(* what the call has done so far.  A function returns the context it       *)
(* leaves, the exception it raised (None when it returned) and its value.  *)
(* An optional value (Python None or an object) is a sequence of length 0  *)
(* or 1.                                                                   *)
(*                                                                         *)
(* env holds what the environment decides during the call:                 *)
(*   failing   which remote metadata fetches of the call fail (by index)   *)
(*   sqlfail   which SQL submissions of the call fail (by index)           *)
(*   restfail  which statistics REST requests of the call fail (by index)  *)
(*   stats     whether descriptive statistics exist on the service         *)
(*   columns   the column names the executor gives the result              *)
(*   order     the iteration order of the feature group dict               *)
(***************************************************************************)
NoCache == << >>
IsNone(opt) == opt = << >>
Some(x) == << x >>
Get(opt) == opt[1]

NewCtx(cache) ==
    [cache |-> cache,   \* core.metadata_cache
     fetches |-> 0,     \* remote metadata fetches performed
     fetched |-> << >>, \* the stores they asked for
     forced |-> 0,      \* calls of _get_featurestore_metadata with update_cache=True
     attempts |-> 0,    \* attempts of the operation started by the wrapper
     calls |-> 0,       \* calls of the operation body the attempts made
     rests |-> 0,       \* statistics REST requests sent
     sqls |-> << >>,    \* SQL statements submitted to the executor
     exc1 |-> None,     \* exception caught by the wrapper's first except clause
     exc2 |-> None,     \* exception raised by the wrapper's second attempt
     refresh |-> None,  \* outcome of the forced refresh of the wrapper's retry step
     opened |-> << >>,  \* connections _run_and_log_sql opened
     closed |-> << >>,  \* connections _run_and_log_sql closed
     trailing |-> << >>] \* the trailing refresh of a creation: its outcome and the cache before it

Ok(ctx, val) == [ctx |-> ctx, exc |-> None, val |-> val]
Raise(ctx, e) == [ctx |-> ctx, exc |-> e, val |-> << >>]

\* Statement sequencing: what follows a call runs on its result when the
\* call returned; an exception the call raised propagates.
Then(r, K(_)) == IF r.exc # None THEN r ELSE K(r)

\* A local variable: the value is computed once and named.
With(v, K(_)) == K(v)

\* rest_rpc._get_featurestore_metadata: the request to the service; it
\* raises RestAPIError when the response is not 200
rest_get_featurestore_metadata(ctx, env, featurestore) ==
    With([ctx EXCEPT !.fetches = @ + 1, !.fetched = Append(@, featurestore)], LAMBDA c :
        IF c.fetches \in env.failing
        THEN Raise(c, "RestAPIError")
        ELSE Ok(c, MetadataResponse(featurestore)))

\* core._get_featurestore_metadata(featurestore, update_cache)
_get_featurestore_metadata_merge(ctx, env, featurestore, update_cache) ==
    With([ctx EXCEPT !.forced = @ + (IF update_cache THEN 1 ELSE 0)], LAMBDA c0 :
        IF IsNone(c0.cache) \/ update_cache
        THEN Then(rest_get_featurestore_metadata(c0, env, featurestore), LAMBDA r :
             With(FeaturestoreMetadata(r.val), LAMBDA new :
             With(IF IsNone(c0.cache) THEN new ELSE Get(c0.cache), LAMBDA old :
             With([new EXCEPT !.featuregroups =
                      [k \in DOMAIN old.featuregroups \cup DOMAIN new.featuregroups |->
                          IF k \in DOMAIN new.featuregroups
                          THEN new.featuregroups[k] ELSE old.featuregroups[k]]], LAMBDA m :
                 Ok([r.ctx EXCEPT !.cache = Some(m)], Some(m))))))
        ELSE Ok(c0, c0.cache))

_get_featurestore_metadata_clear_first(ctx, env, featurestore, update_cache) ==
    With([ctx EXCEPT !.forced = @ + (IF update_cache THEN 1 ELSE 0)], LAMBDA c0 :
        IF IsNone(c0.cache) \/ update_cache
        THEN Then(rest_get_featurestore_metadata([c0 EXCEPT !.cache = NoCache], env, featurestore),
                  LAMBDA r :
             With(FeaturestoreMetadata(r.val), LAMBDA m :
                 Ok([r.ctx EXCEPT !.cache = Some(m)], Some(m))))
        ELSE Ok(c0, c0.cache))

_get_featurestore_metadata(ctx, env, featurestore, update_cache) ==
    With([ctx EXCEPT !.forced = @ + (IF update_cache THEN 1 ELSE 0)], LAMBDA c0 :
        IF IsNone(c0.cache) \/ update_cache
        THEN Then(rest_get_featurestore_metadata(c0, env, featurestore), LAMBDA r :
             With(FeaturestoreMetadata(r.val), LAMBDA m :
                 Ok([r.ctx EXCEPT !.cache = Some(m)], Some(m))))
        ELSE Ok(c0, c0.cache))

\* `featurestore != metadata.featurestore` (core.py:55, 95, 121): the left
\* side is the store name, a str; the right side is the Featurestore object
\* of the snapshot (it has .id, core.py:57, and .name, core.py:340).  A str
\* and an object of another class are never equal.
StrNeFeaturestore(featurestore, featurestore_obj) == TRUE

\* core._get_featurestore_id(featurestore)
_get_featurestore_id(ctx, env, featurestore) ==
    Then(IF IsNone(ctx.cache) \/ StrNeFeaturestore(featurestore, Get(ctx.cache).featurestore)
         THEN _get_featurestore_metadata(ctx, env, featurestore, TRUE)
         ELSE Ok(ctx, ctx.cache), LAMBDA r :
        Ok(r.ctx, Get(r.ctx.cache).featurestore.id))

\* core._get_featuregroup_id(featurestore, featuregroup_name, featuregroup_version)
_get_featuregroup_id(ctx, env, featurestore, featuregroup_name, featuregroup_version) ==
    Then(_get_featurestore_metadata(ctx, env, featurestore, FALSE), LAMBDA r0 :
    Then(IF IsNone(r0.val) \/ StrNeFeaturestore(featurestore, Get(r0.val).featurestore)
         THEN _get_featurestore_metadata(r0.ctx, env, featurestore, TRUE)
         ELSE r0, LAMBDA r1 :
    With({fg \in Values(Get(r1.val).featuregroups) :
             fg.name = featuregroup_name /\ fg.version = featuregroup_version}, LAMBDA found :
        IF found # {}
        THEN Ok(r1.ctx, (CHOOSE fg \in found : TRUE).id)
        ELSE Raise(r1.ctx, "FeaturegroupNotFound"))))

(***************************************************************************)
(* SQL execution (core._run_and_log_sql)                                   *)
(***************************************************************************)
\* Python truth value of an argument; False, None and "" are falsy.
Truthy(v) == v \notin {"False", None, ""}

Range(s) == {s[i] : i \in DOMAIN s}

\* str.split('.'): the segments between the dots, empty ones included.  A
\* string is a sequence of characters.
RECURSIVE Split(_)
Split(s) ==
    IF "." \notin Range(s) THEN << s >>
    ELSE LET i == CHOOSE j \in DOMAIN s : s[j] = "." /\ \A h \in 1..(j - 1) : s[h] # "."
         IN  << SubSeq(s, 1, i - 1) >> \o Split(SubSeq(s, i + 1, Len(s)))

\* core.py:223-224: column.split('.')[1] if '.' in column else column
\* (Python index 1 is the second segment)
StripColumn(column) ==
    IF "." \in Range(column) THEN Split(column)[2] ELSE column

SqlStatement(kind, columns, from, joins, on) ==
    [kind |-> kind, columns |-> columns, from |-> from, joins |-> joins, on |-> on]

\* the statement goes to the executor: the submission fails or yields a
\* result whose columns are renamed
SubmitSql(ctx, env, sql_str, featurestore, online) ==
    With([ctx EXCEPT !.sqls = Append(@, [sql |-> sql_str, featurestore |-> featurestore,
                                         online |-> Truthy(online)])], LAMBDA c1 :
        IF Len(c1.sqls) \in env.sqlfail
        THEN Raise(c1, "DatabaseError")
        ELSE Ok(c1, [sql |-> sql_str,
                     columns |-> [i \in DOMAIN env.columns |-> StripColumn(env.columns[i])]]))

\* sqlalchemy's engine.connect() (core.py:212-214): a connection to the
\* online database of the store
engine_connect(featurestore) == [kind |-> "Connection", database |-> featurestore, online |-> TRUE]

\* util._create_hive_connection(featurestore): a pyhive Connection to the
\* database of the name given
_create_hive_connection(featurestore) == [kind |-> "Connection", database |-> featurestore]

\* the connection is open from here on
Open(ctx, conn) == [ctx EXCEPT !.opened = Append(@, conn)]

\* the finally clauses, `if conn: conn.close()`: they run whether the try
\* block returned or raised, and close what the variable they test holds
Finally(r, conn) == IF conn # << >> THEN [r EXCEPT !.ctx.closed = Append(@, Get(conn))] ELSE r

\* core._run_and_log_sql(sql_str, featurestore, online).  Offline
\* (core.py:187-196) hive_conn holds the connection and the finally clause
\* closes it.  Online (core.py:197-218) the connector is looked up first
\* (_do_get_online_featurestore_connector starts with _get_featurestore_id),
\* the connection is bound to db_connection, and the finally clause tests
\* `connection`, which is None from core.py:198 on.
_run_and_log_sql(ctx, env, sql_str, featurestore, online) ==
    IF ~Truthy(online)
    THEN With(_create_hive_connection(featurestore), LAMBDA hive_conn :
             Finally(SubmitSql(Open(ctx, hive_conn), env, sql_str, featurestore, online), Some(hive_conn)))
    ELSE Then(_get_featurestore_metadata(ctx, env, featurestore, FALSE), LAMBDA r0 :
         Then(_get_featurestore_id(r0.ctx, env, featurestore), LAMBDA r1 :
         With(engine_connect(featurestore), LAMBDA db_connection :
             Finally(SubmitSql(Open(r1.ctx, db_connection), env, sql_str, featurestore, online), << >>))))

(***************************************************************************)
(* Feature resolution and single-feature plans (query_planner)             *)
(***************************************************************************)
\* query_planner._find_featuregroup(featuregroups, name, version)
_find_featuregroup(ctx, featuregroups, featuregroup_name, featuregroup_version) ==
    With(_get_table_name(featuregroup_name, featuregroup_version), LAMBDA k :
        IF k \in DOMAIN featuregroups
        THEN Ok(ctx, featuregroups[k])
        ELSE Raise(ctx, "FeaturegroupNotFound"))

OwnsFeature(fg, feature) == \E i \in DOMAIN fg.features : fg.features[i].name = feature

\* The feature groups of a snapshot in the order the dict iterates them
FeaturegroupsInOrder(featuregroups, order) ==
    LET present(k) == k \in DOMAIN featuregroups
    IN  With(SelectSeq(order, present), LAMBDA keys :
            [i \in DOMAIN keys |-> featuregroups[keys[i]]])

\* Resolution of a bare feature name: scan every feature group, collect
\* the owners; none is FeatureNotFound, one is the answer, more collide.
_find_feature_first_match(ctx, feature, featuregroups_parsed) ==
    LET owns(fg) == OwnsFeature(fg, feature)
    IN  With(SelectSeq(featuregroups_parsed, owns), LAMBDA featuregroups_matched :
            IF Len(featuregroups_matched) = 0 THEN Raise(ctx, "FeatureNotFound")
            ELSE Ok(ctx, featuregroups_matched[1]))

_find_feature(ctx, feature, featuregroups_parsed) ==
    LET owns(fg) == OwnsFeature(fg, feature)
    IN  With(SelectSeq(featuregroups_parsed, owns), LAMBDA featuregroups_matched :
            IF Len(featuregroups_matched) = 0 THEN Raise(ctx, "FeatureNotFound")
            ELSE IF Len(featuregroups_matched) = 1 THEN Ok(ctx, featuregroups_matched[1])
            ELSE Raise(ctx, "FeatureNameCollisionError"))

\* resolve_feature: with a feature group hint the group is looked up by
\* (hint, version); without one every group of the snapshot is scanned
resolve_feature(ctx, env, feature, metadata, featuregroup, featuregroup_version) ==
    IF featuregroup # None
    THEN Then(_find_featuregroup(ctx, metadata.featuregroups, featuregroup, featuregroup_version),
              LAMBDA r : IF OwnsFeature(r.val, feature) THEN r ELSE Raise(ctx, "FeatureNotFound"))
    ELSE _find_feature(ctx, feature, FeaturegroupsInOrder(metadata.featuregroups, env.order))

\* core._do_get_feature(feature, featurestore_metadata, featurestore,
\*                      featuregroup, featuregroup_version, online)
_do_get_feature(ctx, env, feature, featurestore_metadata, featurestore, featuregroup, featuregroup_version, online) ==
    Then(resolve_feature(ctx, env, feature, featurestore_metadata, featuregroup,
                         featuregroup_version), LAMBDA r :
    With(_get_table_name(r.val.name, r.val.version), LAMBDA table :
    With(SqlStatement("SELECT", << <<table, feature>> >>, table, << >>, None), LAMBDA sql_str :
    Then(_run_and_log_sql(ctx, env, sql_str, featurestore, online), LAMBDA q :
        Ok(q.ctx, q.val @@ [featuregroup |-> r.val])))))

(***************************************************************************)
(* Operation bodies (core.py, fs_utils.py)                                 *)
(***************************************************************************)
\* core._do_get_cached_featuregroup(featuregroup_name, featurestore, featuregroup_version, online)
_do_get_cached_featuregroup(ctx, env, featuregroup_name, featurestore, featuregroup_version, online) ==
    With(_get_table_name(featuregroup_name, featuregroup_version), LAMBDA table :
        _run_and_log_sql(ctx, env, SqlStatement("SELECT", << <<table, "*">> >>, table, << >>, None),
                         featurestore, online))

\* core._do_get_featuregroup(featuregroup_name, featurestore_metadata, featurestore,
\*                           featuregroup_version, online)
_do_get_featuregroup(ctx, env, featuregroup_name, featurestore_metadata, featurestore, featuregroup_version, online) ==
    Then(_find_featuregroup(ctx, featurestore_metadata.featuregroups, featuregroup_name,
                            featuregroup_version), LAMBDA r :
        IF r.val.featuregroup_type = cached_featuregroup_type
        THEN _do_get_cached_featuregroup(ctx, env, featuregroup_name, featurestore,
                                         featuregroup_version, online)
        ELSE Raise(ctx, "ValueError"))

\* core._do_get_featuregroup_partitions(featuregroup_name, featurestore_metadata, featurestore,
\*                                      featuregroup_version, online)
_do_get_featuregroup_partitions(ctx, env, featuregroup_name, featurestore_metadata, featurestore, featuregroup_version, online) ==
    Then(_find_featuregroup(ctx, featurestore_metadata.featuregroups, featuregroup_name,
                            featuregroup_version), LAMBDA r :
        IF r.val.featuregroup_type = on_demand_featuregroup_type
        THEN Raise(ctx, "CannotGetPartitionsOfOnDemandFeatureGroup")
        ELSE _run_and_log_sql(ctx, env,
                 SqlStatement("SHOW PARTITIONS", << >>,
                              _get_table_name(featuregroup_name, featuregroup_version), << >>, None),
                 featurestore, online))

\* rest_rpc._get_featuregroup_rest(featuregroup_id, featurestore_id)
_get_featuregroup_rest(ctx, env, featuregroup_id, featurestore_id) ==
    With([ctx EXCEPT !.rests = @ + 1], LAMBDA c :
        IF c.rests \in env.restfail THEN Raise(c, "RestAPIError")
        ELSE Ok(c, [id |-> featuregroup_id, featurestore_id |-> featurestore_id,
                    descriptive_stats |-> env.stats]))

\* core._do_get_featuregroup_statistics(featuregroup_name, featurestore, featuregroup_version)
_do_get_featuregroup_statistics(ctx, env, featuregroup_name, featurestore, featuregroup_version) ==
    Then(_get_featuregroup_id(ctx, env, featurestore, featuregroup_name, featuregroup_version),
         LAMBDA r1 :
    Then(_get_featurestore_id(r1.ctx, env, featurestore), LAMBDA r2 :
        _get_featuregroup_rest(r2.ctx, env, r1.val, r2.val)))

\* core._do_visualize_featuregroup_descriptive_stats(featuregroup_name, featurestore,
\*                                                   featuregroup_version)
_do_visualize_featuregroup_descriptive_stats(ctx, env, featuregroup_name, featurestore, featuregroup_version) ==
    Then(_do_get_featuregroup_statistics(ctx, env, featuregroup_name, featurestore,
                                         featuregroup_version), LAMBDA r :
        IF ~r.val.descriptive_stats
        THEN Raise(r.ctx, "DescriptiveStatisticsNotComputed")
        ELSE r)

\* max() of a non-empty set of versions
Max(S) == CHOOSE x \in S : \A y \in S : y <= x

\* fs_utils._do_get_latest_featuregroup_version(featuregroup_name, featurestore_metadata)
_do_get_latest_featuregroup_version(ctx, featuregroup_name, featurestore_metadata) ==
    With({fg.version : fg \in {g \in Values(featurestore_metadata.featuregroups) :
                                   g.name = featuregroup_name}}, LAMBDA versions :
        IF Cardinality(versions) > 0 THEN Ok(ctx, Max(versions)) ELSE Ok(ctx, 0))

\* core._do_get_training_datasets(featurestore_metadata)
_do_get_training_datasets(ctx, featurestore_metadata) ==
    Ok(ctx, {_get_table_name(td.name, td.version) : td \in Values(featurestore_metadata.training_datasets)})

\* core._get_training_dataset_id(featurestore, training_dataset_name,
\*                               training_dataset_version); the cached
\* snapshot is compared by the name of its feature store (core.py:340)
_get_training_dataset_id_of_any_version(ctx, env, featurestore, training_dataset_name, training_dataset_version) ==
    Then(_get_featurestore_metadata(ctx, env, featurestore, FALSE), LAMBDA r0 :
    Then(IF IsNone(r0.val) \/ featurestore # Get(r0.val).featurestore.name
         THEN _get_featurestore_metadata(r0.ctx, env, featurestore, TRUE)
         ELSE r0, LAMBDA r1 :
    With({td \in Values(Get(r1.val).training_datasets) :
             td.name = training_dataset_name}, LAMBDA found :
        IF found # {}
        THEN Ok(r1.ctx, (CHOOSE td \in found : TRUE).id)
        ELSE Raise(r1.ctx, "TrainingDatasetNotFound"))))

_get_training_dataset_id(ctx, env, featurestore, training_dataset_name, training_dataset_version) ==
    Then(_get_featurestore_metadata(ctx, env, featurestore, FALSE), LAMBDA r0 :
    Then(IF IsNone(r0.val) \/ featurestore # Get(r0.val).featurestore.name
         THEN _get_featurestore_metadata(r0.ctx, env, featurestore, TRUE)
         ELSE r0, LAMBDA r1 :
    With({td \in Values(Get(r1.val).training_datasets) :
             td.name = training_dataset_name /\ td.version = training_dataset_version},
         LAMBDA found :
        IF found # {}
        THEN Ok(r1.ctx, (CHOOSE td \in found : TRUE).id)
        ELSE Raise(r1.ctx, "TrainingDatasetNotFound"))))

\* fs_utils._do_get_latest_training_dataset_version(training_dataset_name,
\*                                                  featurestore_metadata)
_do_get_latest_training_dataset_version_count(ctx, training_dataset_name, featurestore_metadata) ==
    With({td.version : td \in {t \in Values(featurestore_metadata.training_datasets) :
                                   t.name = training_dataset_name}}, LAMBDA versions :
        Ok(ctx, Cardinality(versions)))

_do_get_latest_training_dataset_version(ctx, training_dataset_name, featurestore_metadata) ==
    With({td.version : td \in {t \in Values(featurestore_metadata.training_datasets) :
                                   t.name = training_dataset_name}}, LAMBDA versions :
        IF Cardinality(versions) > 0 THEN Ok(ctx, Max(versions)) ELSE Ok(ctx, 0))

\* core._do_get_storage_connector(storage_connector_name, featurestore).
\* The dict lookup raises KeyError for a missing name; the bare except
\* refreshes the snapshot, translates only a KeyError of that refresh, and
\* the function ends without a return statement: it returns None.
_do_get_storage_connector_cached_first(ctx, env, storage_connector_name, featurestore) ==
    Then(_get_featurestore_metadata(ctx, env, featurestore, FALSE), LAMBDA r1 :
        IF storage_connector_name \in DOMAIN Get(r1.val).storage_connectors
        THEN Ok(r1.ctx, Some(Get(r1.val).storage_connectors[storage_connector_name]))
        ELSE Then(_get_featurestore_metadata(r1.ctx, env, featurestore, TRUE), LAMBDA r2 :
                 Ok(r2.ctx, << >>)))

_do_get_storage_connector(ctx, env, storage_connector_name, featurestore) ==
    Then(_get_featurestore_metadata(ctx, env, featurestore, FALSE), LAMBDA r0 :
    Then(IF IsNone(r0.val) \/ StrNeFeaturestore(featurestore, Get(r0.val).featurestore)
         THEN _get_featurestore_metadata(r0.ctx, env, featurestore, TRUE)
         ELSE r0, LAMBDA r1 :
        IF storage_connector_name \in DOMAIN Get(r1.val).storage_connectors
        THEN Ok(r1.ctx, Some(Get(r1.val).storage_connectors[storage_connector_name]))
        ELSE Then(_get_featurestore_metadata(r1.ctx, env, featurestore, TRUE), LAMBDA r2 :
                 Ok(r2.ctx, << >>))))

(***************************************************************************)
(* Multi-feature plans (FeaturesQuery, LogicalQueryPlan)                   *)
(*                                                                         *)
(* core._do_get_features hands the features, the snapshot, the version     *)
(* dict and the join key to the planner and submits the SQL it renders.    *)
(* The version dict is the empty default: every feature is resolved by a   *)
(* scan of the snapshot.                                                   *)
(***************************************************************************)
\* step 1: every requested feature is resolved, in the order of the list;
\* the first one that fails ends the planning
RECURSIVE resolve_features(_, _, _, _)
resolve_features(ctx, env, features, metadata) ==
    IF features = << >> THEN Ok(ctx, << >>)
    ELSE Then(resolve_feature(ctx, env, Head(features), metadata, None, 1), LAMBDA r :
         Then(resolve_features(ctx, env, Tail(features), metadata), LAMBDA rest :
             Ok(ctx, << r.val >> \o rest.val)))

\* a sequence without its repetitions, in the order of first appearance
RECURSIVE Distinct(_)
Distinct(s) ==
    IF s = << >> THEN << >>
    ELSE LET other(x) == x # Head(s)
         IN  << Head(s) >> \o Distinct(SelectSeq(Tail(s), other))

\* step 2: the participating feature groups
participating_featuregroups_with_repetitions(owners) == owners

participating_featuregroups_in_reverse(owners) ==
    [i \in DOMAIN Distinct(owners) |-> Distinct(owners)[Len(Distinct(owners)) + 1 - i]]

participating_featuregroups(owners) == Distinct(owners)

\* min() of a non-empty set of indices
Min(S) == CHOOSE x \in S : \A y \in S : x <= y

\* the names of the features a feature group marks primary
PrimaryNames(fg) == {fg.features[i].name : i \in {j \in DOMAIN fg.features : fg.features[j].primary}}

\* step 4: a feature name that is primary in every participating feature
\* group; of several the one that comes first in the anchor
infer_join_key_of_the_anchor(ctx, featuregroups) ==
    With({i \in DOMAIN featuregroups[1].features : featuregroups[1].features[i].primary},
         LAMBDA common :
        IF common = {} THEN Raise(ctx, "InferJoinKeyError")
        ELSE Ok(ctx, featuregroups[1].features[Min(common)].name))

infer_join_key(ctx, featuregroups) ==
    With({i \in DOMAIN featuregroups[1].features :
             \A g \in DOMAIN featuregroups :
                 featuregroups[1].features[i].name \in PrimaryNames(featuregroups[g])},
         LAMBDA common :
        IF common = {} THEN Raise(ctx, "InferJoinKeyError")
        ELSE Ok(ctx, featuregroups[1].features[Min(common)].name))

\* steps 3 and 4: no key for one feature group; the explicit key when
\* there is one, as it is; otherwise the inferred one
join_key_of_plan_validated(ctx, featuregroups, join_key) ==
    IF Len(featuregroups) <= 1 THEN Ok(ctx, None)
    ELSE IF join_key # None
    THEN IF \A g \in DOMAIN featuregroups : OwnsFeature(featuregroups[g], join_key)
         THEN Ok(ctx, join_key) ELSE Raise(ctx, "FeatureNotFound")
    ELSE infer_join_key(ctx, featuregroups)

join_key_of_plan(ctx, featuregroups, join_key) ==
    IF Len(featuregroups) <= 1 THEN Ok(ctx, None)
    ELSE IF join_key # None THEN Ok(ctx, join_key)
    ELSE infer_join_key(ctx, featuregroups)

\* LogicalQueryPlan.create_logical_plan
create_logical_plan(ctx, env, features, metadata, join_key) ==
    Then(resolve_features(ctx, env, features, metadata), LAMBDA r :
    With(participating_featuregroups(r.val), LAMBDA fgs :
    Then(join_key_of_plan(ctx, fgs, join_key), LAMBDA k :
        Ok(ctx, [features |-> features, owners |-> r.val, featuregroups |-> fgs,
                 join_key |-> k.val]))))

\* LogicalQueryPlan.construct_sql: SELECT <alias.feature, ...> FROM <anchor>
\* [INNER JOIN <other> ON <anchor>.<key> = <other>.<key>]*
construct_sql_bare_columns(plan) ==
    SqlStatement("SELECT",
        [i \in DOMAIN plan.features |-> << << >>, plan.features[i] >>],
        _get_table_name(plan.featuregroups[1].name, plan.featuregroups[1].version),
        [i \in 1..(Len(plan.featuregroups) - 1) |->
            [table |-> _get_table_name(plan.featuregroups[i + 1].name,
                                       plan.featuregroups[i + 1].version),
             to |-> _get_table_name(plan.featuregroups[1].name, plan.featuregroups[1].version),
             on |-> plan.join_key]],
        plan.join_key)

construct_sql(plan) ==
    SqlStatement("SELECT",
        [i \in DOMAIN plan.features |->
            << _get_table_name(plan.owners[i].name, plan.owners[i].version), plan.features[i] >>],
        _get_table_name(plan.featuregroups[1].name, plan.featuregroups[1].version),
        [i \in 1..(Len(plan.featuregroups) - 1) |->
            [table |-> _get_table_name(plan.featuregroups[i + 1].name,
                                       plan.featuregroups[i + 1].version),
             to |-> _get_table_name(plan.featuregroups[1].name, plan.featuregroups[1].version),
             on |-> plan.join_key]],
        plan.join_key)

\* core._do_get_features(features, featurestore_metadata, featurestore,
\*                       featuregroups_version_dict, join_key, online)
_do_get_features(ctx, env, features, featurestore_metadata, featurestore, join_key, online) ==
    Then(create_logical_plan(ctx, env, features, featurestore_metadata, join_key), LAMBDA p :
    Then(_run_and_log_sql(ctx, env, construct_sql(p.val), featurestore, online), LAMBDA q :
        Ok(q.ctx, q.val @@ [plan |-> p.val])))


(***************************************************************************)
(* Public operations (hops.featurestore)                                   *)
(*                                                                         *)
(* A call `core.f(x, core._get_featurestore_metadata(fs, update_cache=u),  *)
(* k=v, ...)` looks up core.f, then evaluates the arguments, then binds    *)
(* them to the parameters of f, then runs the body.                        *)
(***************************************************************************)
\* an attempt of the operation starts
Begin(ctx) == [ctx EXCEPT !.attempts = @ + 1]
\* the bare `except:` clause catches whatever the first attempt raised
Caught(r) == [r.ctx EXCEPT !.exc1 = r.exc]
\* the outcome of the second attempt
Second(r) == [r EXCEPT !.ctx.exc2 = r.exc]

\* try: <first attempt> except: <handler>
Retry(r1, Handler(_)) == IF r1.exc = None THEN r1 ELSE Handler(Caught(r1))

\* try: ... except Exception as e: raise <e2>(... str(e))
Wrapped(r, e2) == IF r.exc = None THEN r ELSE Raise(r.ctx, e2)

\* the retry step's core._get_featurestore_metadata(featurestore, update_cache=True)
RetryRefresh(ctx, env, featurestore) ==
    With(_get_featurestore_metadata(ctx, env, featurestore, TRUE), LAMBDA r :
        [r EXCEPT !.ctx.refresh = IF r.exc = None THEN "done" ELSE r.exc])

\* The metadata argument is evaluated and the call is made; binding fails
\* with TypeError when a keyword is not a parameter of the function.
CallWithMetadata(ctx, env, featurestore, update_cache, parameters, keywords) ==
    Then(IF update_cache THEN RetryRefresh(ctx, env, featurestore)
         ELSE _get_featurestore_metadata(ctx, env, featurestore, FALSE), LAMBDA m :
    With([m.ctx EXCEPT !.calls = @ + 1], LAMBDA c :
        IF ~(keywords \subseteq parameters) THEN Raise(c, "TypeError")
        ELSE Ok(c, m.val)))

\* core defines no function of the name the wrapper uses: the attribute
\* lookup raises before any argument is evaluated
MissingCoreFunction(ctx) == Raise(ctx, "AttributeError")

\* likewise for a function fs_utils does not define
MissingFsUtilsFunction(ctx) == Raise(ctx, "AttributeError")

\* likewise for a function rest_rpc does not define
MissingRestRpcFunction(ctx) == Raise(ctx, "AttributeError")

\* featurestore_settings.jdbc_connector_type: the type the service gives its
\* JDBC connectors
jdbc_connector_type == "JDBC"

\* the statement that ends the creation operations:
\*     try: core._get_featurestore_metadata(featurestore, update_cache=True)
\*     except: pass
\* The function then logs and returns None.
TrailingRefresh(ctx, env, featurestore) ==
    With(_get_featurestore_metadata(ctx, env, featurestore, TRUE), LAMBDA r :
        Ok([r.ctx EXCEPT !.trailing = Some([exc |-> r.exc, before |-> ctx.cache])], << >>))

\* featurestore.get_featurestore_metadata(featurestore, update_cache)
get_featurestore_metadata_always_refresh(ctx, env, a) ==
    _get_featurestore_metadata(Begin(ctx), env, a.featurestore, TRUE)

get_featurestore_metadata(ctx, env, a) ==
    _get_featurestore_metadata(Begin(ctx), env, a.featurestore, a.update_cache)

\* featurestore.get_feature
get_feature(ctx, env, a) ==
    LET attempt(c, update_cache) ==
            Then(CallWithMetadata(c, env, a.featurestore, update_cache,
                     {"feature", "featurestore_metadata", "featurestore", "featuregroup",
                      "featuregroup_version", "online"},
                     {"featurestore", "featuregroup", "featuregroup_version",
                      "dataframe_type", "jdbc_args"}), LAMBDA p :
                _do_get_feature(p.ctx, env, a.name, Get(p.val), a.featurestore,
                                a.featuregroup, a.version, "False"))
    IN  Retry(attempt(Begin(ctx), FALSE), LAMBDA c : Second(attempt(Begin(c), TRUE)))

\* featurestore.get_featuregroup
get_featuregroup(ctx, env, a) ==
    LET attempt(c, update_cache) ==
            Then(CallWithMetadata(c, env, a.featurestore, update_cache,
                     {"featuregroup_name", "featurestore_metadata", "featurestore",
                      "featuregroup_version", "online"},
                     {"featurestore", "featuregroup_version", "dataframe_type", "jdbc_args"}),
                 LAMBDA p :
                _do_get_featuregroup(p.ctx, env, a.name, Get(p.val), a.featurestore,
                                     a.version, "False"))
    IN  Retry(attempt(Begin(ctx), FALSE), LAMBDA c : Second(attempt(Begin(c), TRUE)))

\* featurestore.get_featuregroup_partitions: the arguments are positional,
\* so dataframe_type lands in the parameter `online`
get_featuregroup_partitions_three_attempts(ctx, env, a) ==
    LET attempt(c, update_cache) ==
            Then(CallWithMetadata(c, env, a.featurestore, update_cache, {}, {}), LAMBDA p :
                _do_get_featuregroup_partitions(p.ctx, env, a.name, Get(p.val),
                                                a.featurestore, a.version, a.dataframe_type))
    IN  Retry(attempt(Begin(ctx), FALSE), LAMBDA c :
            Retry(attempt(Begin(c), TRUE), LAMBDA d : Second(attempt(Begin(d), TRUE))))

get_featuregroup_partitions(ctx, env, a) ==
    LET attempt(c, update_cache) ==
            Then(CallWithMetadata(c, env, a.featurestore, update_cache, {}, {}), LAMBDA p :
                _do_get_featuregroup_partitions(p.ctx, env, a.name, Get(p.val),
                                                a.featurestore, a.version, a.dataframe_type))
    IN  Retry(attempt(Begin(ctx), FALSE), LAMBDA c : Second(attempt(Begin(c), TRUE)))

\* featurestore.get_latest_featuregroup_version: both attempts pass
\* update_cache=False
get_latest_featuregroup_version(ctx, env, a) ==
    LET attempt(c, update_cache) ==
            Then(CallWithMetadata(c, env, a.featurestore, update_cache, {}, {}), LAMBDA p :
                _do_get_latest_featuregroup_version(p.ctx, a.name, Get(p.val)))
    IN  Retry(attempt(Begin(ctx), FALSE), LAMBDA c : Second(attempt(Begin(c), FALSE)))

\* featurestore.get_latest_training_dataset_version
get_latest_training_dataset_version(ctx, env, a) ==
    LET attempt(c, update_cache) ==
            Then(CallWithMetadata(c, env, a.featurestore, update_cache, {}, {}), LAMBDA p :
                _do_get_latest_training_dataset_version(p.ctx, a.name, Get(p.val)))
    IN  Retry(attempt(Begin(ctx), FALSE), LAMBDA c : Second(attempt(Begin(c), TRUE)))

\* featurestore.get_storage_connector: one call, no retry
get_storage_connector(ctx, env, a) ==
    _do_get_storage_connector([Begin(ctx) EXCEPT !.calls = @ + 1], env, a.name, a.featurestore)

\* featurestore.sql(query, featurestore): core._run_and_log_sql(hive_conn, query)
\* binds the connection to sql_str and the query to featurestore; online
\* keeps its default False
sql(ctx, env, a) ==
    With(_create_hive_connection(a.featurestore), LAMBDA hive_conn :
        _run_and_log_sql([Begin(ctx) EXCEPT !.calls = @ + 1], env, hive_conn, a.query, "False"))

\* featurestore.get_training_datasets
get_training_datasets(ctx, env, a) ==
    LET attempt(c, update_cache) ==
            Then(CallWithMetadata(c, env, a.featurestore, update_cache, {}, {}), LAMBDA p :
                _do_get_training_datasets(p.ctx, Get(p.val)))
    IN  Retry(attempt(Begin(ctx), FALSE), LAMBDA c : Second(attempt(Begin(c), TRUE)))

\* featurestore.get_featuregroup_statistics
get_featuregroup_statistics(ctx, env, a) ==
    LET attempt(c) ==
            _do_get_featuregroup_statistics([c EXCEPT !.calls = @ + 1], env, a.name,
                                            a.featurestore, a.version)
    IN  Retry(attempt(Begin(ctx)), LAMBDA c :
            Then(RetryRefresh(c, env, a.featurestore), LAMBDA f :
                Second(attempt(Begin(f.ctx)))))

\* featurestore.visualize_featuregroup_descriptive_stats
visualize_featuregroup_descriptive_stats_whatever_the_refresh(ctx, env, a) ==
    LET attempt(c) ==
            _do_visualize_featuregroup_descriptive_stats([c EXCEPT !.calls = @ + 1], env, a.name,
                                                         a.featurestore, a.version)
    IN  Retry(attempt(Begin(ctx)), LAMBDA c :
            With(RetryRefresh(c, env, a.featurestore), LAMBDA f :
                Wrapped(Second(attempt(Begin(f.ctx))), "FeatureVisualizationError")))

visualize_featuregroup_descriptive_stats_reraise(ctx, env, a) ==
    LET attempt(c) ==
            _do_visualize_featuregroup_descriptive_stats([c EXCEPT !.calls = @ + 1], env, a.name,
                                                         a.featurestore, a.version)
    IN  Retry(attempt(Begin(ctx)), LAMBDA c :
            Then(RetryRefresh(c, env, a.featurestore), LAMBDA f :
                Second(attempt(Begin(f.ctx)))))

visualize_featuregroup_descriptive_stats(ctx, env, a) ==
    LET attempt(c) ==
            _do_visualize_featuregroup_descriptive_stats([c EXCEPT !.calls = @ + 1], env, a.name,
                                                         a.featurestore, a.version)
    IN  Retry(attempt(Begin(ctx)), LAMBDA c :
            Then(RetryRefresh(c, env, a.featurestore), LAMBDA f :
                Wrapped(Second(attempt(Begin(f.ctx))), "FeatureVisualizationError")))

\* featurestore.update_featuregroup_stats: core has no _do_update_featuregroup_stats
update_featuregroup_stats(ctx, env, a) ==
    Retry(MissingCoreFunction(Begin(ctx)), LAMBDA c :
        Wrapped(Second(MissingCoreFunction(Begin(c))), "StatisticsComputationError"))

\* featurestore.update_training_dataset_stats: core has no _do_update_training_dataset_stats
update_training_dataset_stats(ctx, env, a) ==
    Retry(MissingCoreFunction(Begin(ctx)), LAMBDA c :
        Wrapped(Second(MissingCoreFunction(Begin(c))), "StatisticsComputationError"))

\* featurestore.sync_hive_table_with_featurestore: core has no
\* _sync_hive_table_with_featurestore; the trailing refresh swallows its failure
sync_hive_table_with_featurestore(ctx, env, a) ==
    Then(Retry(MissingCoreFunction(Begin(ctx)), LAMBDA c : Second(MissingCoreFunction(Begin(c)))),
         LAMBDA r : TrailingRefresh(r.ctx, env, a.featurestore))

\* featurestore.create_featuregroup (featurestore.py:634-676): the conversion
\* of the dataframe calls fs_utils._convert_dataframe_to_spark, which fs_utils
\* does not define, inside `try ... except Exception`, and the handler raises
\* CouldNotConvertDataframe.  What follows is the rest of the function.
create_featuregroup(ctx, env, a) ==
    Then(Wrapped(MissingFsUtilsFunction(Begin(ctx)), "CouldNotConvertDataframe"), LAMBDA s :
    Then(MissingCoreFunction(s.ctx), LAMBDA p :
    Then(_get_featurestore_metadata(p.ctx, env, a.featurestore, FALSE), LAMBDA m :
    Then(_get_featurestore_id(m.ctx, env, a.featurestore), LAMBDA i :
    Then(MissingFsUtilsFunction(i.ctx), LAMBDA t :
    Then(MissingRestRpcFunction(t.ctx), LAMBDA c :
    Then(MissingCoreFunction(c.ctx), LAMBDA w :
        TrailingRefresh(w.ctx, env, a.featurestore))))))))

\* featurestore.create_on_demand_featuregroup (featurestore.py:558-580):
\* a.query is sql_query and a.name is jdbc_connector_name.  The connector
\* comes from get_storage_connector, which may return None; fs_utils has no
\* _get_on_demand_featuregroup_type_info and rest_rpc no _create_featuregroup_rest.
create_on_demand_featuregroup(ctx, env, a) ==
    IF a.query = None \/ a.name = None
    THEN Raise(Begin(ctx), "ValueError")
    ELSE Then(get_storage_connector(ctx, env, a), LAMBDA j :
         Then(_get_featurestore_metadata(j.ctx, env, a.featurestore, FALSE), LAMBDA m :
             IF IsNone(j.val)
             THEN Raise(m.ctx, "AttributeError")
             ELSE IF Get(j.val).type # jdbc_connector_type
             THEN Raise(m.ctx, "ValueError")
             ELSE Then(_get_featurestore_id(m.ctx, env, a.featurestore), LAMBDA i :
                  Then(MissingFsUtilsFunction(i.ctx), LAMBDA t :
                  Then(MissingRestRpcFunction(t.ctx), LAMBDA c :
                      TrailingRefresh(c.ctx, env, a.featurestore))))))

\* featurestore.import_featuregroup: core has no _do_get_external_featuregroup,
\* and the retry passes update_cache=False as the first attempt does
import_featuregroup(ctx, env, a) ==
    Retry(MissingCoreFunction(Begin(ctx)), LAMBDA c : Second(MissingCoreFunction(Begin(c))))

(***************************************************************************)
(* The state machine                                                       *)
(***************************************************************************)
Idle == [op |-> "idle"]

\* no thread besides the main one
NoThreads == << >>

\* what the environment may decide during one call
FetchFaults == SUBSET (1..MaxFetchFaults)
SqlFaults == {{}, {1}, {1, 2}}
RestFaults == {{}, {1}, {1, 2}}

InsertionOrder == [i \in 1..MaxVersion |-> <<"trx", i>>] \o << <<"graph", 1>> >>
QualifiedColumn == << <<"t", ".", "c">> >>

Env(failing, sqlfail, restfail, stats) ==
    [failing |-> failing, sqlfail |-> sqlfail, restfail |-> restfail, stats |-> stats,
     columns |-> QualifiedColumn, order |-> InsertionOrder]

Args(featurestore, name, version) ==
    [featurestore |-> featurestore, name |-> name, version |-> version,
     featuregroup |-> None, dataframe_type |-> "spark", update_cache |-> FALSE,
     features |-> << >>, join_key |-> None, query |-> None]

\* The call returns to the calling script: the cache is what the call left,
\* the script holds the result.
Complete(op, a, env, r) ==
    /\ last = Idle
    /\ metadata_cache' = r.ctx.cache
    /\ last' = [op |-> op, a |-> a, env |-> env, exc |-> r.exc, val |-> r.val,
                pre |-> metadata_cache, attempts |-> r.ctx.attempts, calls |-> r.ctx.calls,
                fetches |-> r.ctx.fetches, fetched |-> r.ctx.fetched, forced |-> r.ctx.forced,
                rests |-> r.ctx.rests, sqls |-> r.ctx.sqls,
                exc1 |-> r.ctx.exc1, exc2 |-> r.ctx.exc2, refresh |-> r.ctx.refresh,
                opened |-> r.ctx.opened, closed |-> r.ctx.closed,
                trailing |-> r.ctx.trailing]
    /\ UNCHANGED <<remote, threads>>

\* The calling script takes the result and goes on
Return ==
    /\ last # Idle
    /\ last' = Idle
    /\ UNCHANGED <<remote, metadata_cache, threads>>

GetFeaturestoreMetadata ==
    \E fs \in Stores, u \in BOOLEAN, failing \in FetchFaults :
        LET a == [Args(fs, None, 1) EXCEPT !.update_cache = u]
            env == Env(failing, {}, {}, TRUE)
        IN  Complete("get_featurestore_metadata", a, env,
                     get_featurestore_metadata(NewCtx(metadata_cache), env, a))

GetFeature ==
    \E fs \in Stores, f \in {"max_trx", "cust_id"}, failing \in FetchFaults, sqlfail \in SqlFaults :
        LET a == Args(fs, f, 1)
            env == Env(failing, sqlfail, {}, TRUE)
        IN  Complete("get_feature", a, env, get_feature(NewCtx(metadata_cache), env, a))

GetFeaturegroup ==
    \E fs \in Stores, k \in FgKeys, failing \in FetchFaults, sqlfail \in SqlFaults :
        LET a == Args(fs, k[1], k[2])
            env == Env(failing, sqlfail, {}, TRUE)
        IN  Complete("get_featuregroup", a, env, get_featuregroup(NewCtx(metadata_cache), env, a))

GetFeaturegroupPartitions ==
    \E fs \in Stores, k \in FgKeys, failing \in FetchFaults, sqlfail \in SqlFaults :
        LET a == Args(fs, k[1], k[2])
            env == Env(failing, sqlfail, {}, TRUE)
        IN  Complete("get_featuregroup_partitions", a, env,
                     get_featuregroup_partitions(NewCtx(metadata_cache), env, a))

GetLatestFeaturegroupVersion ==
    \E fs \in Stores, n \in {"trx", "graph"}, failing \in FetchFaults :
        LET a == Args(fs, n, 1)
            env == Env(failing, {}, {}, TRUE)
        IN  Complete("get_latest_featuregroup_version", a, env,
                     get_latest_featuregroup_version(NewCtx(metadata_cache), env, a))

GetTrainingDatasets ==
    \E fs \in Stores, failing \in FetchFaults :
        LET a == Args(fs, None, 1)
            env == Env(failing, {}, {}, TRUE)
        IN  Complete("get_training_datasets", a, env,
                     get_training_datasets(NewCtx(metadata_cache), env, a))

GetFeaturegroupStatistics ==
    \E fs \in Stores, k \in FgKeys, failing \in FetchFaults, restfail \in RestFaults :
        LET a == Args(fs, k[1], k[2])
            env == Env(failing, {}, restfail, TRUE)
        IN  Complete("get_featuregroup_statistics", a, env,
                     get_featuregroup_statistics(NewCtx(metadata_cache), env, a))

VisualizeFeaturegroupDescriptiveStats ==
    \E fs \in Stores, k \in FgKeys, failing \in FetchFaults, restfail \in RestFaults,
       stats \in BOOLEAN :
        LET a == Args(fs, k[1], k[2])
            env == Env(failing, {}, restfail, stats)
        IN  Complete("visualize_featuregroup_descriptive_stats", a, env,
                     visualize_featuregroup_descriptive_stats(NewCtx(metadata_cache), env, a))

UpdateFeaturegroupStats ==
    \E fs \in Stores, k \in FgKeys :
        LET a == Args(fs, k[1], k[2])
            env == Env({}, {}, {}, TRUE)
        IN  Complete("update_featuregroup_stats", a, env,
                     update_featuregroup_stats(NewCtx(metadata_cache), env, a))

UpdateTrainingDatasetStats ==
    \E fs \in Stores, k \in TdKeys :
        LET a == Args(fs, k[1], k[2])
            env == Env({}, {}, {}, TRUE)
        IN  Complete("update_training_dataset_stats", a, env,
                     update_training_dataset_stats(NewCtx(metadata_cache), env, a))

SyncHiveTableWithFeaturestore ==
    \E fs \in Stores, k \in FgKeys, failing \in FetchFaults :
        LET a == Args(fs, k[1], k[2])
            env == Env(failing, {}, {}, TRUE)
        IN  Complete("sync_hive_table_with_featurestore", a, env,
                     sync_hive_table_with_featurestore(NewCtx(metadata_cache), env, a))

ImportFeaturegroup ==
    \E fs \in Stores, k \in FgKeys :
        LET a == Args(fs, k[1], k[2])
            env == Env({}, {}, {}, TRUE)
        IN  Complete("import_featuregroup", a, env,
                     import_featuregroup(NewCtx(metadata_cache), env, a))

\* The service: other clients create and delete feature groups of the
\* project's feature store between two calls of this client.
ServerCreateFeaturegroup ==
    /\ last = Idle
    /\ \E k \in FgKeys \ remote[project_featurestore].featuregroups :
           remote' = [remote EXCEPT ![project_featurestore].featuregroups = @ \cup {k}]
    /\ UNCHANGED <<metadata_cache, last, threads>>

ServerDeleteFeaturegroup ==
    /\ last = Idle
    /\ \E k \in remote[project_featurestore].featuregroups :
           remote' = [remote EXCEPT ![project_featurestore].featuregroups = @ \ {k}]
    /\ UNCHANGED <<metadata_cache, last, threads>>

RemoteInit ==
    [s \in Stores |->
        IF s = project_featurestore
        THEN [featuregroups |-> {<<"trx", 1>>}, training_datasets |-> {}, storage_connectors |-> {}]
        ELSE [featuregroups |-> FgKeys, training_datasets |-> {<<"td", 1>>},
              storage_connectors |-> ConnectorNames]]

\* core.py:816-821: on load the module fetches the metadata of the project's
\* feature store and keeps the cache empty when that fails
Init ==
    /\ remote = RemoteInit
    /\ \E failing \in {{}, {1}} :
           metadata_cache =
               _get_featurestore_metadata(NewCtx(NoCache), Env(failing, {}, {}, TRUE),
                                          project_featurestore, FALSE).ctx.cache
    /\ last = Idle
    /\ threads = NoThreads

Next ==
    \/ GetFeaturestoreMetadata
    \/ GetFeature
    \/ GetFeaturegroup
    \/ GetFeaturegroupPartitions
    \/ GetLatestFeaturegroupVersion
    \/ GetTrainingDatasets
    \/ GetFeaturegroupStatistics
    \/ VisualizeFeaturegroupDescriptiveStats
    \/ UpdateFeaturegroupStats
    \/ UpdateTrainingDatasetStats
    \/ SyncHiveTableWithFeaturestore
    \/ ImportFeaturegroup
    \/ Return
    \/ ServerCreateFeaturegroup
    \/ ServerDeleteFeaturegroup

Spec == Init /\ [][Next]_vars

(***************************************************************************)
(* Direct calls of core functions                                          *)
(***************************************************************************)
Letters == {"a", "b", "."}
ColumnNames == UNION {[1..n -> Letters] : n \in 1..MaxColLen}

\* core._run_and_log_sql called with a statement whose result has one column
RunAndLogSql ==
    \E column \in ColumnNames, online \in {"False", "True"}, sqlfail \in {{}, {1}} :
        LET a == [Args(project_featurestore, None, 1) EXCEPT !.dataframe_type = online]
            env == [Env({}, sqlfail, {}, TRUE) EXCEPT !.columns = << column >>]
            sql_str == SqlStatement("SELECT", << <<"t", "*">> >>, "t", << >>, None)
        IN  Complete("_run_and_log_sql", a, env,
                     _run_and_log_sql(NewCtx(metadata_cache), env, sql_str, a.featurestore, online))

SqlInit ==
    /\ remote = RemoteInit
    /\ metadata_cache = Some(FeaturestoreMetadata(MetadataResponse(project_featurestore)))
    /\ last = Idle
    /\ threads = NoThreads

SqlNext == RunAndLogSql \/ Return

SpecSql == SqlInit /\ [][SqlNext]_vars

\* every order in which a dict may iterate the feature groups
Orders == {o \in [1..Cardinality(FgKeys) -> FgKeys] : \A i, j \in DOMAIN o : i # j => o[i] # o[j]}

\* core._do_get_feature called with the cached snapshot and no feature group
DoGetFeature ==
    \E f \in {"cust_id", "max_trx", "pagerank", "min_trx"}, order \in Orders, sqlfail \in {{}, {1}} :
        /\ ~IsNone(metadata_cache)
        /\ LET a == Args(Get(metadata_cache).featurestore.name, f, 1)
               env == [Env({}, sqlfail, {}, TRUE) EXCEPT !.order = order]
           IN  Complete("_do_get_feature", a, env,
                        _do_get_feature(NewCtx(metadata_cache), env, f, Get(metadata_cache),
                                        a.featurestore, None, 1, "False"))

\* any snapshot of either store
PlanInit ==
    /\ \E s \in Stores, fgs \in SUBSET FgKeys :
           /\ remote = [RemoteInit EXCEPT ![s].featuregroups = fgs]
           /\ metadata_cache = Some(FeaturestoreMetadata(MetadataResponse(s)))
    /\ last = Idle
    /\ threads = NoThreads

PlanNext == DoGetFeature \/ Return

SpecPlan == PlanInit /\ [][PlanNext]_vars

\* Feature groups of the project's store for multi-feature queries: "trx"
\* and "graph" share the primary cust_id, "web" has the primary sess_id and
\* "pay" has both.
PlannerGroup(id, name, features) ==
    [name |-> name, version |-> 1, id |-> id, featuregroup_type |-> cached_featuregroup_type,
     features |-> features]

PlannerGroups ==
    {FeaturegroupJson(project_featurestore, <<"trx", 1>>),
     FeaturegroupJson(project_featurestore, <<"graph", 1>>),
     PlannerGroup(6731, "web", << [name |-> "sess_id", primary |-> TRUE],
                                  [name |-> "clicks", primary |-> FALSE] >>),
     PlannerGroup(6741, "pay", << [name |-> "cust_id", primary |-> TRUE],
                                  [name |-> "sess_id", primary |-> TRUE],
                                  [name |-> "amount", primary |-> FALSE] >>)}

PlannerOrder == << <<"pay", 1>>, <<"web", 1>>, <<"graph", 1>>, <<"trx", 1>> >>

FeatureNames == {"max_trx", "pagerank", "clicks", "amount", "cust_id"}
FeatureLists == UNION {[1..n -> FeatureNames] : n \in 1..MaxFeatures}
JoinKeys == {None, "cust_id", "sess_id", "bogus"}

\* core._do_get_features called with the cached snapshot
DoGetFeatures ==
    \E features \in FeatureLists, join_key \in JoinKeys, sqlfail \in {{}, {1}} :
        /\ ~IsNone(metadata_cache)
        /\ LET a == [Args(Get(metadata_cache).featurestore.name, None, 1)
                        EXCEPT !.features = features, !.join_key = join_key]
               env == [Env({}, sqlfail, {}, TRUE) EXCEPT !.order = PlannerOrder]
           IN  Complete("_do_get_features", a, env,
                        _do_get_features(NewCtx(metadata_cache), env, features,
                                         Get(metadata_cache), a.featurestore, join_key, "False"))

\* any snapshot of the project's store made of these feature groups
FeaturesInit ==
    /\ remote = RemoteInit
    /\ \E groups \in SUBSET PlannerGroups :
           metadata_cache =
               Some(FeaturestoreMetadata(
                   [featurestore |-> [name |-> project_featurestore,
                                      id |-> StoreId(project_featurestore)],
                    featuregroups |-> groups, training_datasets |-> {},
                    storage_connectors |-> {}]))
    /\ last = Idle
    /\ threads = NoThreads

FeaturesNext == DoGetFeatures \/ Return

SpecFeatures == FeaturesInit /\ [][FeaturesNext]_vars

(***************************************************************************)
(* Lookups by name, latest versions, storage connectors and raw SQL        *)
(*                                                                         *)
(* Other clients create and delete training datasets and storage           *)
(* connectors of the project's feature store between two calls.            *)
(***************************************************************************)
ServerCreateTrainingDataset ==
    /\ last = Idle
    /\ \E k \in TdKeys \ remote[project_featurestore].training_datasets :
           remote' = [remote EXCEPT ![project_featurestore].training_datasets = @ \cup {k}]
    /\ UNCHANGED <<metadata_cache, last, threads>>

ServerDeleteTrainingDataset ==
    /\ last = Idle
    /\ \E k \in remote[project_featurestore].training_datasets :
           remote' = [remote EXCEPT ![project_featurestore].training_datasets = @ \ {k}]
    /\ UNCHANGED <<metadata_cache, last, threads>>

ServerCreateStorageConnector ==
    /\ last = Idle
    /\ \E n \in ConnectorNames \ remote[project_featurestore].storage_connectors :
           remote' = [remote EXCEPT ![project_featurestore].storage_connectors = @ \cup {n}]
    /\ UNCHANGED <<metadata_cache, last, threads>>

ServerDeleteStorageConnector ==
    /\ last = Idle
    /\ \E n \in remote[project_featurestore].storage_connectors :
           remote' = [remote EXCEPT ![project_featurestore].storage_connectors = @ \ {n}]
    /\ UNCHANGED <<metadata_cache, last, threads>>

\* core._get_featuregroup_id and core._get_training_dataset_id called as
\* core.py:730 and core.py:759 call them
GetFeaturegroupId ==
    \E fs \in Stores, k \in FgKeys, failing \in FetchFaults :
        LET a == Args(fs, k[1], k[2])
            env == Env(failing, {}, {}, TRUE)
        IN  Complete("_get_featuregroup_id", a, env,
                     _get_featuregroup_id(NewCtx(metadata_cache), env, fs, k[1], k[2]))

GetFeaturestoreId ==
    \E fs \in Stores, failing \in FetchFaults :
        LET a == Args(fs, None, 1)
            env == Env(failing, {}, {}, TRUE)
        IN  Complete("_get_featurestore_id", a, env,
                     _get_featurestore_id(NewCtx(metadata_cache), env, fs))

GetTrainingDatasetId ==
    \E fs \in Stores, k \in TdKeys, failing \in FetchFaults :
        LET a == Args(fs, k[1], k[2])
            env == Env(failing, {}, {}, TRUE)
        IN  Complete("_get_training_dataset_id", a, env,
                     _get_training_dataset_id(NewCtx(metadata_cache), env, fs, k[1], k[2]))

GetLatestTrainingDatasetVersion ==
    \E fs \in Stores, n \in {"td", "trx"}, failing \in FetchFaults :
        LET a == Args(fs, n, 1)
            env == Env(failing, {}, {}, TRUE)
        IN  Complete("get_latest_training_dataset_version", a, env,
                     get_latest_training_dataset_version(NewCtx(metadata_cache), env, a))

GetStorageConnector ==
    \E fs \in Stores, n \in ConnectorNames, failing \in FetchFaults :
        LET a == Args(fs, n, 1)
            env == Env(failing, {}, {}, TRUE)
        IN  Complete("get_storage_connector", a, env,
                     get_storage_connector(NewCtx(metadata_cache), env, a))

\* the queries a caller passes to sql()
Queries ==
    {SqlStatement("SELECT", << <<t, "*">> >>, t, << >>, None) :
        t \in {_get_table_name(k[1], k[2]) : k \in FgKeys}}

\* pd.read_sql is given the Connection where the statement belongs: the
\* executor has no statement to run and the call raises
Sql ==
    \E fs \in Stores, q \in Queries :
        LET a == [Args(fs, None, 1) EXCEPT !.query = q]
            env == Env({}, {1}, {}, TRUE)
        IN  Complete("sql", a, env, sql(NewCtx(metadata_cache), env, a))

LookupNext ==
    \/ GetFeaturegroupId
    \/ GetFeaturestoreId
    \/ GetTrainingDatasetId
    \/ GetFeaturegroupStatistics
    \/ GetLatestFeaturegroupVersion
    \/ GetLatestTrainingDatasetVersion
    \/ GetStorageConnector
    \/ Sql
    \/ ServerCreateTrainingDataset
    \/ ServerDeleteTrainingDataset
    \/ ServerCreateStorageConnector
    \/ ServerDeleteStorageConnector
    \/ Return

SpecLookup == Init /\ [][LookupNext]_vars

(***************************************************************************)
(* Two threads of one script                                               *)
(*                                                                         *)
(* Each thread calls get_training_datasets on its own feature store, again *)
(* and again.  core.py takes no lock, so the threads interleave at every   *)
(* access of the global metadata_cache in core._get_featurestore_metadata  *)
(* (core.py:72-76): the test of the slot, the request, the assignment and  *)
(* the read of the return statement are steps of their own.                *)
(***************************************************************************)
Threads == {"t_a", "t_b"}
StoreOf(t) == IF t = "t_a" THEN "fs_a" ELSE "fs_b"

ThreadIdle(t) ==
    [pc |-> "idle", featurestore |-> StoreOf(t), attempt |-> 0, update_cache |-> FALSE,
     response |-> << >>, metadata |-> << >>, exc |-> None, val |-> {}]

\* `return metadata_cache` (core.py:76): the global is read again, whatever
\* this call fetched
return_fetched_metadata(slot, response) ==
    IF response # << >> THEN Some(FeaturestoreMetadata(Get(response))) ELSE slot

return_metadata_cache(slot, response) == slot

\* featurestore.get_training_datasets is called: first attempt, update_cache=False
ThreadCall(t) ==
    /\ threads[t].pc = "idle"
    /\ threads' = [threads EXCEPT ![t] = [ThreadIdle(t) EXCEPT !.pc = "test", !.attempt = 1]]
    /\ UNCHANGED <<remote, metadata_cache, last>>

\* core.py:73: if metadata_cache is None or update_cache
ThreadTest(t) ==
    /\ threads[t].pc = "test"
    /\ threads' = [threads EXCEPT ![t].pc =
                      IF IsNone(metadata_cache) \/ threads[t].update_cache
                      THEN "request" ELSE "return"]
    /\ UNCHANGED <<remote, metadata_cache, last>>

\* core.py:74: the request is answered, or it raises RestAPIError; the bare
\* except of the wrapper starts the second attempt with update_cache=True,
\* the second attempt's exception ends the call
ThreadRequest(t) ==
    /\ threads[t].pc = "request"
    /\ \/ threads' = [threads EXCEPT ![t].pc = "assign",
                                     ![t].response = Some(MetadataResponse(StoreOf(t)))]
       \/ /\ threads[t].attempt = 1
          /\ threads' = [threads EXCEPT ![t].pc = "test", ![t].attempt = 2,
                                        ![t].update_cache = TRUE]
       \/ /\ threads[t].attempt = 2
          /\ threads' = [threads EXCEPT ![t].pc = "done", ![t].exc = "RestAPIError"]
    /\ UNCHANGED <<remote, metadata_cache, last>>

\* core.py:75: metadata_cache = FeaturestoreMetadata(response_object)
ThreadAssign(t) ==
    /\ threads[t].pc = "assign"
    /\ metadata_cache' = Some(FeaturestoreMetadata(Get(threads[t].response)))
    /\ threads' = [threads EXCEPT ![t].pc = "return"]
    /\ UNCHANGED <<remote, last>>

\* core.py:76: return metadata_cache
ThreadReturnMetadata(t) ==
    /\ threads[t].pc = "return"
    /\ threads' = [threads EXCEPT ![t].pc = "body",
                      ![t].metadata = return_metadata_cache(metadata_cache, threads[t].response)]
    /\ UNCHANGED <<remote, metadata_cache, last>>

\* core._do_get_training_datasets runs on the snapshot it was handed
ThreadBody(t) ==
    /\ threads[t].pc = "body"
    /\ threads' = [threads EXCEPT ![t].pc = "done",
                      ![t].val = _do_get_training_datasets(NewCtx(metadata_cache),
                                                           Get(threads[t].metadata)).val]
    /\ UNCHANGED <<remote, metadata_cache, last>>

\* the thread takes the result and goes on
ThreadReturn(t) ==
    /\ threads[t].pc = "done"
    /\ threads' = [threads EXCEPT ![t] = ThreadIdle(t)]
    /\ UNCHANGED <<remote, metadata_cache, last>>

ThreadsInit ==
    /\ remote = RemoteInit
    /\ \E failing \in {{}, {1}} :
           metadata_cache =
               _get_featurestore_metadata(NewCtx(NoCache), Env(failing, {}, {}, TRUE),
                                          project_featurestore, FALSE).ctx.cache
    /\ last = Idle
    /\ threads = [t \in Threads |-> ThreadIdle(t)]

ThreadsNext ==
    \E t \in Threads :
        \/ ThreadCall(t)
        \/ ThreadTest(t)
        \/ ThreadRequest(t)
        \/ ThreadAssign(t)
        \/ ThreadReturnMetadata(t)
        \/ ThreadBody(t)
        \/ ThreadReturn(t)

SpecThreads == ThreadsInit /\ [][ThreadsNext]_vars

(***************************************************************************)
(* The REST transport (util.send_request)                                  *)
(*                                                                         *)
(* net holds what the network decides during the call: the status code of  *)
(* the response to each transmission and which transmissions get no        *)
(* response at all (requests raises ConnectionError).                      *)
(***************************************************************************)
HTTP_UNAUTHORIZED == 401
StatusCodes == {200, 201, 400, HTTP_UNAUTHORIZED, 404, 500}
Methods == {"GET", "POST", "PUT", "DELETE"}
Resources == {"/project/featurestores", "/project/jobs", "/project/dataset"}

\* session.send(prepped, verify=...): one transmission
session_send(sent, net, prepped, verify) ==
    With(Append(sent, [request |-> prepped, verify |-> verify]), LAMBDA s1 :
        IF Len(s1) \in net.dropped
        THEN [sent |-> s1, exc |-> "ConnectionError", val |-> << >>]
        ELSE [sent |-> s1, exc |-> None,
              val |-> [status_code |-> net.status[Len(s1)], request |-> prepped]])

\* util.send_request(method, resource, data, headers)
send_request_again_on_any_error(net, method, resource, data) ==
    With([method |-> method, url |-> <<"https://", resource>>, data |-> data], LAMBDA prepped :
    Then(session_send(<< >>, net, prepped, "verify"), LAMBDA r1 :
        IF r1.val.status_code >= 400
        THEN session_send(r1.sent, net, prepped, None)
        ELSE r1))

send_request(net, method, resource, data) ==
    With([method |-> method, url |-> <<"https://", resource>>, data |-> data], LAMBDA prepped :
    Then(session_send(<< >>, net, prepped, "verify"), LAMBDA r1 :
        IF r1.val.status_code = HTTP_UNAUTHORIZED
        THEN session_send(r1.sent, net, prepped, None)
        ELSE r1))

SendRequest ==
    /\ last = Idle
    /\ \E method \in Methods, resource \in Resources,
          status \in [1..2 -> StatusCodes], dropped \in SUBSET (1..2) :
           LET net == [status |-> status, dropped |-> dropped]
               r == send_request(net, method, resource, None)
           IN  last' = [op |-> "send_request",
                        a |-> [method |-> method, resource |-> resource],
                        env |-> net, exc |-> r.exc, val |-> r.val, sent |-> r.sent]
    /\ UNCHANGED <<remote, metadata_cache, threads>>

RequestNext == SendRequest \/ Return

SpecRequest == Init /\ [][RequestNext]_vars

(***************************************************************************)
(* Creation operations                                                     *)
(***************************************************************************)
SqlQueries == {None, "SELECT * FROM ext"}

CreateFeaturegroup ==
    \E fs \in Stores, k \in FgKeys, failing \in FetchFaults :
        LET a == [Args(fs, None, k[2]) EXCEPT !.featuregroup = k[1]]
            env == Env(failing, {}, {}, TRUE)
        IN  Complete("create_featuregroup", a, env,
                     create_featuregroup(NewCtx(metadata_cache), env, a))

CreateOnDemandFeaturegroup ==
    \E fs \in Stores, n \in ConnectorNames \cup {None}, sql_query \in SqlQueries, failing \in FetchFaults :
        LET a == [Args(fs, n, 1) EXCEPT !.featuregroup = "ext", !.query = sql_query]
            env == Env(failing, {}, {}, TRUE)
        IN  Complete("create_on_demand_featuregroup", a, env,
                     create_on_demand_featuregroup(NewCtx(metadata_cache), env, a))

CreateNext ==
    \/ CreateFeaturegroup
    \/ CreateOnDemandFeaturegroup
    \/ SyncHiveTableWithFeaturestore
    \/ GetFeaturestoreMetadata
    \/ ServerCreateStorageConnector
    \/ ServerDeleteStorageConnector
    \/ Return

SpecCreate == Init /\ [][CreateNext]_vars

(***************************************************************************)
(* Properties                                                              *)
(***************************************************************************)
\* public operations written as a first attempt and a retry
RetryOps ==
    {"get_feature", "get_featuregroup", "get_featuregroup_partitions",
     "get_latest_featuregroup_version", "get_training_datasets", "get_featuregroup_statistics",
     "visualize_featuregroup_descriptive_stats", "update_featuregroup_stats",
     "update_training_dataset_stats", "sync_hive_table_with_featurestore", "import_featuregroup"}

\* the snapshot a successful fetch of the store of the last call returns
RefreshedSnapshot == FeaturestoreMetadata(MetadataResponse(last.a.featurestore))

NoFaults == Env({}, {}, {}, TRUE)

\* the body of the last operation returns when it is run on snapshot m and
\* nothing outside the client fails
BodyReturnsOn(m) ==
    LET c == NewCtx(Some(m))
        a == last.a
    IN  CASE last.op = "get_feature" ->
                _do_get_feature(c, NoFaults, a.name, m, a.featurestore, a.featuregroup,
                                a.version, "False").exc = None
          [] last.op = "get_featuregroup" ->
                _do_get_featuregroup(c, NoFaults, a.name, m, a.featurestore, a.version,
                                     "False").exc = None
          [] last.op = "get_featuregroup_partitions" ->
                _do_get_featuregroup_partitions(c, NoFaults, a.name, m, a.featurestore,
                                                a.version, a.dataframe_type).exc = None
          [] last.op = "get_latest_featuregroup_version" -> TRUE
          [] last.op = "get_training_datasets" -> TRUE
          [] last.op = "get_featuregroup_statistics" ->
                _do_get_featuregroup_statistics(c, NoFaults, a.name, a.featurestore,
                                                a.version).exc = None
          [] last.op = "visualize_featuregroup_descriptive_stats" ->
                _do_visualize_featuregroup_descriptive_stats(c, NoFaults, a.name, a.featurestore,
                                                             a.version).exc = None
          [] OTHER -> FALSE

\* C1 (P6): when the first attempt of a metadata-dependent operation throws
\* and the body succeeds on the refreshed snapshot, the call succeeds and
\* the forced refresh (update_cache=True) happened exactly once.
C1_RefreshExactlyOnce ==
    (/\ last.op \in RetryOps
     /\ last.exc1 # None
     /\ last.env = NoFaults
     /\ BodyReturnsOn(RefreshedSnapshot))
    => (last.exc = None /\ last.forced = 1)

\* C2: in every retrying operation a first attempt that raised is followed
\* by a forced refresh (update_cache=True) and one more attempt of the body
\* on the refreshed snapshot.
C2_RetryRefreshesUniformly ==
    (last.op \in RetryOps /\ last.exc1 # None)
    => (/\ last.forced >= 1
        /\ (last.env.failing = {}
              => (/\ last.attempts = 2
                  /\ ~IsNone(metadata_cache)
                  /\ Get(metadata_cache) = RefreshedSnapshot)))

\* C3 as claimed: the exception of a failed second attempt reaches the
\* caller as it is, in every retrying operation.
C3_SecondFailureUnchanged ==
    (last.op \in RetryOps /\ last.exc2 # None) => last.exc = last.exc2

StatsUpdateOps == {"update_featuregroup_stats", "update_training_dataset_stats"}
VisualizeOps == {"visualize_featuregroup_descriptive_stats"}

\* C3 as amended: the exception of a failed second attempt reaches the
\* caller as it is, except that update_featuregroup_stats and
\* update_training_dataset_stats raise StatisticsComputationError in its
\* place and the visualize operations FeatureVisualizationError.
C3_SecondFailurePropagates ==
    (last.op \in RetryOps /\ last.exc2 # None)
    => last.exc = (IF last.op \in StatsUpdateOps THEN "StatisticsComputationError"
                   ELSE IF last.op \in VisualizeOps
                        THEN "FeatureVisualizationError"
                   ELSE last.exc2)

C3_Witness ==
    /\ last.op = "get_featuregroup_partitions"
    /\ last.exc1 = "FeaturegroupNotFound"
    /\ last.exc2 = "DatabaseError"
    /\ last.exc = "DatabaseError"

\* C4: no public call attempts its operation more than twice, whatever fails.
C4_AtMostTwoAttempts ==
    last.op # "idle" => (last.attempts <= 2 /\ last.calls <= 2)

C4_Witness ==
    /\ last.op \in RetryOps
    /\ last.attempts = 2
    /\ last.calls = 2
    /\ last.exc # None

\* C5: with a non-empty cache and update_cache false, the metadata lookup
\* performs no remote fetch, returns the cached snapshot and leaves the
\* cache as it was.
C5_CachedLookupIsPure ==
    (last.op = "get_featurestore_metadata" /\ ~IsNone(last.pre) /\ ~last.a.update_cache)
    => (/\ last.fetches = 0
        /\ last.exc = None
        /\ last.val = last.pre
        /\ metadata_cache = last.pre)

C5_Witness ==
    /\ last.op = "get_featurestore_metadata"
    /\ ~IsNone(last.pre)
    /\ ~last.a.update_cache
    /\ Get(last.pre).featurestore.name = last.a.featurestore
    /\ Get(last.pre) # RefreshedSnapshot
    /\ last.val = last.pre

\* C6: with an empty cache or update_cache true, the metadata lookup
\* performs exactly one remote fetch, for the requested store; when it
\* succeeds the cache holds exactly the fetched snapshot, nothing of the
\* previous one, and that snapshot is returned.
C6_RefreshReplacesCache ==
    (last.op = "get_featurestore_metadata" /\ (IsNone(last.pre) \/ last.a.update_cache))
    => (/\ last.fetches = 1
        /\ last.fetched = << last.a.featurestore >>
        /\ (last.exc = None
              => (/\ metadata_cache = Some(RefreshedSnapshot)
                  /\ last.val = metadata_cache)))

C6_Witness ==
    /\ last.op = "get_featurestore_metadata"
    /\ last.a.update_cache
    /\ ~IsNone(last.pre)
    /\ Get(last.pre).featurestore.name = last.a.featurestore
    /\ DOMAIN Get(last.pre).featuregroups \ DOMAIN RefreshedSnapshot.featuregroups # {}
    /\ last.exc = None
    /\ metadata_cache = Some(RefreshedSnapshot)

\* C7: a metadata lookup for a store other than the one whose snapshot is
\* cached (update_cache false) drops that snapshot: afterwards the cache
\* holds the snapshot of the requested store and that is what is returned.
C7_LookupOfOtherStoreInvalidates ==
    (/\ last.op = "get_featurestore_metadata"
     /\ ~IsNone(last.pre)
     /\ ~last.a.update_cache
     /\ Get(last.pre).featurestore.name # last.a.featurestore
     /\ last.exc = None)
    => (/\ Get(last.val).featurestore.name = last.a.featurestore
        /\ Get(metadata_cache).featurestore.name = last.a.featurestore)

\* the feature group the last call names is an on-demand group of its store
OnDemandInStore ==
    /\ _get_table_name(last.a.name, last.a.version) \in remote[last.a.featurestore].featuregroups
    /\ FgTypeOf(last.a.featurestore, last.a.name) = on_demand_featuregroup_type

\* C8 (P5): get_featuregroup_partitions on a feature group that is on-demand
\* in the store the call names always ends with
\* CannotGetPartitionsOfOnDemandFeatureGroup.
C8_PartitionsOfOnDemandAlwaysRaises ==
    (last.op = "get_featuregroup_partitions" /\ OnDemandInStore)
    => last.exc = "CannotGetPartitionsOfOnDemandFeatureGroup"

\* the suffix of a column name after its last dot
SuffixAfterLastDot(column) ==
    IF "." \in Range(column) THEN Split(column)[Len(Split(column))] ELSE column

\* C9: every column name of a materialized result is reduced to the suffix
\* after its LAST dot when it contains a dot, and is left unchanged when it
\* contains none.
C9_KeepsSuffixAfterLastDot ==
    (last.op = "_run_and_log_sql" /\ last.exc = None)
    => \A i \in DOMAIN last.env.columns :
           last.val.columns[i] = SuffixAfterLastDot(last.env.columns[i])

\* the feature groups of the snapshot the last call resolved against that
\* own the feature it asked for; two versions of one name are two groups
Owners ==
    {k \in DOMAIN Get(last.pre).featuregroups :
        OwnsFeature(Get(last.pre).featuregroups[k], last.a.name)}

\* C10 (P1): on a fixed snapshot the resolution of a bare feature name
\* depends on the snapshot alone, not on the order the groups are scanned
\* in: it raises FeatureNameCollisionError if and only if at least two
\* feature groups own the name, raises FeatureNotFound when none does, and
\* otherwise resolves to the one owner.
C10_ResolutionDeterminism ==
    last.op = "_do_get_feature"
    => (/\ (last.exc = "FeatureNameCollisionError") <=> (Cardinality(Owners) >= 2)
        /\ (Cardinality(Owners) = 0) => (last.exc = "FeatureNotFound")
        /\ (Cardinality(Owners) = 1)
             => (/\ last.exc \in {None, "DatabaseError"}
                 /\ last.exc = None
                      => \A k \in Owners :
                             /\ last.val.featuregroup = Get(last.pre).featuregroups[k]
                             /\ last.val.sql.from = k))

C10_Witness ==
    /\ last.op = "_do_get_feature"
    /\ Cardinality(Owners) >= 2
    /\ last.exc = "FeatureNameCollisionError"
    /\ last.env.order # InsertionOrder
    /\ last.sqls = << >>

\* the feature groups of the snapshot the last call planned against
SnapshotGroups == Values(Get(last.pre).featuregroups)

\* every requested feature has exactly one owner in the snapshot
Resolvable ==
    \A i \in DOMAIN last.a.features :
        Cardinality({g \in SnapshotGroups : OwnsFeature(g, last.a.features[i])}) = 1

OwnerOf(feature) == CHOOSE g \in SnapshotGroups : OwnsFeature(g, feature)

\* the distinct feature groups the requested features resolve to
Participating == {OwnerOf(last.a.features[i]) : i \in DOMAIN last.a.features}

\* the feature names that are primary in every participating feature group
CommonPrimaryNames ==
    {n \in UNION {PrimaryNames(g) : g \in Participating} :
        \A g \in Participating : n \in PrimaryNames(g)}

TableOf(fg) == _get_table_name(fg.name, fg.version)

\* C11 (P3): a query over more than one feature group with no explicit
\* join key fails with InferJoinKeyError exactly when no feature name is
\* primary in every participating group, and otherwise joins on a name
\* that is primary in every one of them.
C11_InferredJoinKeyIsCommonPrimary ==
    (/\ last.op = "_do_get_features"
     /\ Resolvable
     /\ Cardinality(Participating) > 1
     /\ last.a.join_key = None)
    => (/\ (last.exc = "InferJoinKeyError") <=> (CommonPrimaryNames = {})
        /\ last.exc = None => last.val.plan.join_key \in CommonPrimaryNames)

C11_Witness ==
    /\ last.op = "_do_get_features"
    /\ Resolvable
    /\ Cardinality(Participating) > 1
    /\ last.a.join_key = None
    /\ last.exc = None
    /\ last.val.plan.join_key = "sess_id"
    /\ \E g \in Participating : Cardinality(PrimaryNames(g)) > 1

\* C12 (P2): when every requested feature resolves to the same feature
\* group the plan has one table, no join key is needed or inferred, and the
\* SQL has no JOIN clause.
C12_SingleGroupHasNoJoin ==
    (/\ last.op = "_do_get_features"
     /\ Resolvable
     /\ Cardinality(Participating) = 1)
    => (/\ last.exc \in {None, "DatabaseError"}
        /\ Len(last.sqls) = 1
        /\ last.sqls[1].sql.joins = << >>
        /\ last.sqls[1].sql.on = None
        /\ \A g \in Participating : last.sqls[1].sql.from = TableOf(g)
        /\ last.exc = None => Len(last.val.plan.featuregroups) = 1)

C12_Witness ==
    /\ last.op = "_do_get_features"
    /\ Resolvable
    /\ Cardinality(Participating) = 1
    /\ Len(last.a.features) = 3
    /\ last.a.features[1] # last.a.features[2]
    /\ last.a.join_key = "cust_id"
    /\ last.exc = None
    /\ last.val.sql.joins = << >>

C14_AnchorIsFirstAndOthersJoinIt ==
    (/\ last.op = "_do_get_features"
     /\ last.exc = None
     /\ Cardinality(Participating) > 1)
    => LET stmt == last.val.sql
           tables == << stmt.from >> \o [j \in DOMAIN stmt.joins |-> stmt.joins[j].table]
       IN  /\ stmt.from = TableOf(OwnerOf(last.a.features[1]))
           /\ Len(tables) = Cardinality(Participating)
           /\ Range(tables) = {TableOf(g) : g \in Participating}
           /\ tables = [i \in DOMAIN last.val.plan.featuregroups |->
                           TableOf(last.val.plan.featuregroups[i])]
           /\ \A i, j \in DOMAIN tables :
                  i < j => \E m \in DOMAIN last.a.features :
                               /\ TableOf(OwnerOf(last.a.features[m])) = tables[i]
                               /\ \A h \in 1..m : TableOf(OwnerOf(last.a.features[h])) # tables[j]
           /\ \A j \in DOMAIN stmt.joins :
                  stmt.joins[j].to = stmt.from /\ stmt.joins[j].on = last.val.plan.join_key

C14_Witness ==
    /\ last.op = "_do_get_features"
    /\ last.exc = None
    /\ Cardinality(Participating) = 2
    /\ Len(last.a.features) = 3
    /\ last.a.features[1] = last.a.features[3]
    /\ last.a.features[1] # last.a.features[2]
    /\ last.val.sql.from = TableOf(OwnerOf(last.a.features[1]))
    /\ Len(last.val.sql.joins) = 1

\* C15: an explicit join key is used as it is: with a key that no
\* participating feature group has, the planning does not fail and the
\* join is on that key.
C15_ExplicitJoinKeyIsTrusted ==
    (/\ last.op = "_do_get_features"
     /\ Resolvable
     /\ Cardinality(Participating) > 1
     /\ last.a.join_key # None)
    => (/\ last.exc \in {None, "DatabaseError"}
        /\ Len(last.sqls) = 1
        /\ last.sqls[1].sql.on = last.a.join_key
        /\ \A j \in DOMAIN last.sqls[1].sql.joins : last.sqls[1].sql.joins[j].on = last.a.join_key)

C15_Witness ==
    /\ last.op = "_do_get_features"
    /\ Resolvable
    /\ Cardinality(Participating) > 1
    /\ last.a.join_key = "bogus"
    /\ \A g \in Participating : ~OwnsFeature(g, "bogus")
    /\ last.exc = None
    /\ last.val.sql.on = "bogus"

\* the table name the last call looked up
LookupKey == _get_table_name(last.a.name, last.a.version)

\* the snapshot the call found in the cache does not hold the key
FgAbsentBefore == IsNone(last.pre) \/ LookupKey \notin DOMAIN Get(last.pre).featuregroups
TdAbsentBefore == IsNone(last.pre) \/ LookupKey \notin DOMAIN Get(last.pre).training_datasets

\* a refresh finds no entry of that name and version on the service
FgAbsentAfter == <<last.a.name, last.a.version>> \notin remote[last.a.featurestore].featuregroups
TdAbsentAfter == <<last.a.name, last.a.version>> \notin remote[last.a.featurestore].training_datasets

\* C16: a lookup by (name, version) of an entry that is in the snapshot
\* neither before nor after the forced refresh fails with the NotFound
\* error of its kind, and a lookup that returns gives the id of the entry
\* of the evaluated snapshot whose name and version both match; whenever
\* the evaluated snapshot has such an entry the lookup returns.
C16_LookupByNameAndVersion ==
    /\ (last.op \in {"_get_featuregroup_id", "get_featuregroup_statistics"}
            /\ last.env.failing = {} /\ FgAbsentBefore /\ FgAbsentAfter)
       => last.exc = "FeaturegroupNotFound"
    /\ (last.op = "_get_training_dataset_id"
            /\ last.env.failing = {} /\ TdAbsentBefore /\ TdAbsentAfter)
       => last.exc = "TrainingDatasetNotFound"
    /\ (last.op = "_get_featuregroup_id" /\ last.exc # "RestAPIError")
       => LET groups == Get(metadata_cache).featuregroups
          IN  IF LookupKey \in DOMAIN groups
              THEN /\ last.exc = None
                   /\ last.val = groups[LookupKey].id
                   /\ groups[LookupKey].name = last.a.name
                   /\ groups[LookupKey].version = last.a.version
              ELSE last.exc = "FeaturegroupNotFound"
    /\ (last.op = "_get_training_dataset_id" /\ last.exc # "RestAPIError")
       => LET datasets == Get(metadata_cache).training_datasets
          IN  IF LookupKey \in DOMAIN datasets
              THEN /\ last.exc = None
                   /\ last.val = datasets[LookupKey].id
                   /\ datasets[LookupKey].name = last.a.name
                   /\ datasets[LookupKey].version = last.a.version
              ELSE last.exc = "TrainingDatasetNotFound"

\* a lookup of a training dataset of which the service has another version
\* only: the cache held another store, the refresh was forced
C16_Witness ==
    /\ last.op = "_get_training_dataset_id"
    /\ TdAbsentBefore /\ TdAbsentAfter
    /\ last.forced = 1 /\ last.fetches = 1
    /\ \E v \in Versions : <<last.a.name, v>> \in remote[last.a.featurestore].training_datasets
    /\ last.exc = "TrainingDatasetNotFound"

\* C17: sql(query, featurestore) submits the caller's query, unmodified, as
\* the one statement of the call, against the feature store given, and
\* neither fetches metadata nor changes the cache.
C17_SqlPassesTheQueryThrough ==
    last.op = "sql"
    => /\ Len(last.sqls) = 1
       /\ last.sqls[1].sql = last.a.query
       /\ last.sqls[1].featurestore = last.a.featurestore
       /\ last.fetches = 0
       /\ metadata_cache = last.pre

\* the versions the entries named as the last call asked have in the
\* snapshot the call evaluated (the one the cache holds when it returns)
VersionsInSnapshot ==
    IF last.op = "get_latest_featuregroup_version"
    THEN {g.version : g \in {x \in Values(Get(metadata_cache).featuregroups) :
                                x.name = last.a.name}}
    ELSE {t.version : t \in {x \in Values(Get(metadata_cache).training_datasets) :
                                x.name = last.a.name}}

\* C19: get_latest_featuregroup_version and
\* get_latest_training_dataset_version return the greatest version of the
\* entries of that name in the snapshot they evaluate, and 0 when the
\* snapshot has no entry of that name.
C19_LatestVersionIsMaximum ==
    last.op \in {"get_latest_featuregroup_version", "get_latest_training_dataset_version"}
    => /\ last.exc \in {None, "RestAPIError"}
       /\ last.exc = None =>
              IF VersionsInSnapshot = {} THEN last.val = 0
              ELSE /\ last.val \in VersionsInSnapshot
                   /\ \A v \in VersionsInSnapshot : v <= last.val

C19_Witness ==
    /\ last.op = "get_latest_training_dataset_version"
    /\ last.exc = None
    /\ Cardinality(VersionsInSnapshot) > 1
    /\ last.val = MaxVersion

\* C20: get_storage_connector returns the connector of the given name
\* whenever the service has it in the metadata of the store, also when the
\* cached snapshot does not have it.
C20_ConnectorOfTheStoreIsReturned ==
    (/\ last.op = "get_storage_connector"
     /\ last.env.failing = {}
     /\ last.a.name \in remote[last.a.featurestore].storage_connectors)
    => /\ last.exc = None
       /\ last.val = Some(StorageConnectorJson(last.a.featurestore, last.a.name))

\* the cache held a snapshot of the same store from before the connector
\* was created
C20_Witness ==
    /\ last.op = "get_storage_connector"
    /\ ~IsNone(last.pre)
    /\ Get(last.pre).featurestore.name = last.a.featurestore
    /\ last.a.name \notin DOMAIN Get(last.pre).storage_connectors
    /\ last.a.name \in remote[last.a.featurestore].storage_connectors
    /\ last.exc = None
    /\ last.val = Some(StorageConnectorJson(last.a.featurestore, last.a.name))
    /\ last.a.name \in DOMAIN Get(metadata_cache).storage_connectors

\* C18: no lock guards the one cache slot.  What a thread's operation is
\* handed is what the slot holds at the moment of the return statement,
\* whichever thread wrote it and whatever the thread itself has fetched;
\* so a thread that has fetched the metadata of its own store can run its
\* operation on the snapshot of the other thread's store.
C18_OperationRunsOnTheSharedSlot ==
    [][\A t \in Threads :
          (threads[t].pc = "return" /\ threads'[t].pc = "body")
          => threads'[t].metadata = metadata_cache]_vars

\* thread t_a fetched and assigned the snapshot of fs_a in this call, and
\* its operation has run on the snapshot of fs_b, which t_b assigned in
\* between; the names it returns are the training datasets of fs_b
C18_Witness ==
    /\ threads # NoThreads
    /\ threads["t_a"].pc = "done"
    /\ threads["t_a"].exc = None
    /\ threads["t_a"].response = Some(MetadataResponse("fs_a"))
    /\ Get(threads["t_a"].metadata).featurestore.name = "fs_b"
    /\ threads["t_a"].val = {_get_table_name(k[1], k[2]) : k \in remote["fs_b"].training_datasets}
    /\ threads["t_a"].val # {_get_table_name(k[1], k[2]) : k \in remote["fs_a"].training_datasets}

\* C21: send_request transmits the request once or twice: twice exactly
\* when the first transmission is answered 401, never a third time, and
\* what it returns is the response to the last transmission.
C21_AtMostTwoTransmissions ==
    last.op = "send_request"
    => /\ Len(last.sent) \in 1..2
       /\ (Len(last.sent) = 2)
              <=> (1 \notin last.env.dropped /\ last.env.status[1] = HTTP_UNAUTHORIZED)
       /\ \A i \in DOMAIN last.sent : last.sent[i].request = last.sent[1].request
       /\ (last.exc = None) <=> (Len(last.sent) \notin last.env.dropped)
       /\ last.exc = None => last.val.status_code = last.env.status[Len(last.sent)]

\* both transmissions are answered 401: there is no third one and the
\* second 401 is what the caller gets
C21_Witness ==
    /\ last.op = "send_request"
    /\ last.env.status = << HTTP_UNAUTHORIZED, HTTP_UNAUTHORIZED >>
    /\ last.env.dropped = {}
    /\ Len(last.sent) = 2
    /\ last.exc = None
    /\ last.val.status_code = HTTP_UNAUTHORIZED

\* C22: when the cache holds a snapshot and the first attempt of a public
\* operation succeeds, the call has fetched no metadata from the service
\* and the cache is what it was.
C22_FirstAttemptUsesOnlyTheCache ==
    (/\ last.op \in RetryOps
     /\ ~IsNone(last.pre)
     /\ last.attempts = 1
     /\ last.exc = None)
    => /\ last.fetches = 0
       /\ metadata_cache = last.pre

\* C23: a storage connector name that the metadata does not have, the
\* refreshed metadata included, makes the lookup raise
\* StorageConnectorNotFound; the lookup never returns without a connector.
C23_MissingConnectorRaises ==
    last.op = "get_storage_connector"
    => /\ (last.env.failing = {}
              /\ last.a.name \notin remote[last.a.featurestore].storage_connectors)
          => last.exc = "StorageConnectorNotFound"
       /\ ~(last.exc = None /\ last.val = << >>)

\* C24: _get_featurestore_id and _get_featuregroup_id fetch from the
\* service only when the cache is empty or holds another store; with the
\* snapshot of the requested store in the cache they fetch nothing.
C24_IdLookupsKeepTheCachedStore ==
    (/\ last.op \in {"_get_featurestore_id", "_get_featuregroup_id"}
     /\ ~IsNone(last.pre)
     /\ Get(last.pre).featurestore.name = last.a.featurestore)
    => /\ last.fetches = 0
       /\ last.forced = 0
       /\ metadata_cache = last.pre

\* C25: a metadata fetch that fails leaves the cache as it was: a call all
\* of whose fetches failed ends with the cache it started with, and a cache
\* that holds a snapshot never becomes empty, whatever is called.
C25_FailedFetchKeepsTheCache ==
    [][/\ ~IsNone(metadata_cache) => ~IsNone(metadata_cache')
       /\ (last = Idle /\ last' # Idle)
          => ((\A i \in 1..last'.fetches : i \in last'.env.failing)
                 => metadata_cache' = metadata_cache)]_vars

\* a call on a cache that holds a snapshot made fetches, all failed, and
\* ended with an exception and the same snapshot in the cache
C25_Witness ==
    /\ last # Idle
    /\ ~IsNone(last.pre)
    /\ last.fetches = MaxFetchFaults
    /\ \A i \in 1..last.fetches : i \in last.env.failing
    /\ last.exc = "RestAPIError"
    /\ metadata_cache = last.pre

\* C26: when the forced refresh of the retry step fails, the call fails
\* and the operation body is not run a second time.
C26_FailedRetryRefreshEndsTheCall ==
    (last.op \in RetryOps /\ last.refresh \notin {None, "done"})
    => /\ last.exc # None
       /\ last.exc1 # None
       /\ last.calls <= 1
       /\ last.fetches \in last.env.failing

\* get_feature: the first attempt ran the body's call and failed, the
\* refresh of the second attempt failed, the body's call was not made again
C26_Witness ==
    /\ last.op = "get_feature"
    /\ last.refresh = "RestAPIError"
    /\ last.attempts = 2
    /\ last.calls = 1
    /\ last.exc = "RestAPIError"

\* C27: a get_featuregroup_partitions call for a feature group that is
\* on-demand in the store it names submits no statement to the executor,
\* in neither attempt.
C27_NoSqlForOnDemandPartitions ==
    (last.op = "get_featuregroup_partitions" /\ OnDemandInStore)
    => last.sqls = << >>

\* C28: every connection _run_and_log_sql opened is closed when the function
\* has returned or raised, on the offline and on the online path.
C28_OpenedConnectionsAreClosed ==
    (last.op = "_run_and_log_sql") => last.closed = last.opened

CreationOps == {"create_featuregroup", "create_on_demand_featuregroup", "sync_hive_table_with_featurestore"}

\* the call names what the service can create: an on-demand feature group
\* needs a query and a connector of the store
ValidCreation ==
    last.op = "create_on_demand_featuregroup"
    => (last.a.query # None /\ last.a.name \in remote[last.a.featurestore].storage_connectors)

\* no metadata fetch the call made failed, the trailing refresh's apart
NoFaultBeforeTheTrailingRefresh ==
    last.env.failing \cap (1..(last.fetches - Len(last.trailing))) = {}

====
